---- MODULE Spec2Model ----
(***************************************************************************)
(* Model of pl_dalle/modules/losses/patch.py: the hinge losses, ResBlock,  *)
(* PatchDiscriminator and PatchReconstructionDiscriminator.                *)
(*                                                                         *)
(* A tensor is a record [shape, id]: its shape and a symbolic description  *)
(* of where its data comes from.  Layers are modelled by what they do to   *)
(* shapes and by the conditions under which the tensor library rejects an  *)
(* input.  Logits are integers; a forward pass that completes yields one   *)
(* arbitrary logit per image (the weights and the random crop are not      *)
(* fixed by the module).  A loss is an exact fraction [nan, num, den].     *)
(***************************************************************************)
EXTENDS Integers, Sequences, FiniteSets, TLC

VARIABLES obj, phase, op, args, trace, passes, result

vars == <<obj, phase, op, args, trace, passes, result>>

(* ------------------------------ bounds --------------------------------- *)
MaxLen == 2
MaxLogit == 2
MaxBatch == 2
MaxPatch == 9
MaxResBlock == 1
MaxDim == 3

(* --------------------------- small helpers ----------------------------- *)
RECURSIVE Prod(_)
Prod(s) == IF s = <<>> THEN 1 ELSE Head(s) * Prod(Tail(s))

RECURSIVE SumSeq(_)
SumSeq(s) == IF s = <<>> THEN 0 ELSE Head(s) + SumSeq(Tail(s))

Vectors(n, vals) == [1..n -> vals]

VectorsUpTo(n, vals) == UNION {Vectors(k, vals) : k \in 0..n}

\* the element of a one-element set; The({e(x) : x \in {v}}) is e with x
\* standing for the value of v
The(S) == CHOOSE x \in S : TRUE

(* ------------------------- losses (lines 7-15) ------------------------- *)
relu(x) == IF x > 0 THEN x ELSE 0

\* torch.mean of a vector, as an exact fraction; the mean of no elements is nan
mean(v) == [nan |-> Len(v) = 0, num |-> SumSeq(v), den |-> Len(v)]

NoLoss == [nan |-> FALSE, num |-> 0, den |-> 0]

\* 0.5 * (a + b) on fractions
HalfSum(a, b) ==
    IF a.nan \/ b.nan
    THEN [nan |-> TRUE, num |-> 0, den |-> 0]
    ELSE [nan |-> FALSE, num |-> a.num * b.den + b.num * a.den,
          den |-> 2 * a.den * b.den]

hinge_d_loss_swapped_sign(logits_real, logits_fake) ==
    LET loss_real == mean([i \in 1..Len(logits_real) |-> relu(1 - logits_real[i])])
        loss_fake == mean([i \in 1..Len(logits_fake) |-> relu(1 - logits_fake[i])])
    IN  HalfSum(loss_real, loss_fake)

hinge_d_loss(logits_real, logits_fake) ==
    LET loss_real == mean([i \in 1..Len(logits_real) |-> relu(1 - logits_real[i])])
        loss_fake == mean([i \in 1..Len(logits_fake) |-> relu(1 + logits_fake[i])])
    IN  HalfSum(loss_real, loss_fake)

hinge_g_loss(logits_fake) ==
    mean([i \in 1..Len(logits_fake) |-> relu(1 - logits_fake[i])])

\* comparisons of a loss with zero
IsZero(l) == ~l.nan /\ l.den > 0 /\ l.num = 0
IsPositive(l) == ~l.nan /\ l.den > 0 /\ l.num > 0

(* ------------------------- layers on shapes ---------------------------- *)
Ok(s) == [status |-> "ok", shape |-> s]
Err(e) == [status |-> e, shape |-> <<>>]

\* kornia RandomCrop((p, p), cropping_mode='resample'): accepts (H,W),
\* (C,H,W) and (B,C,H,W) and returns (B,C,p,p).  Only images at least as
\* large as the crop are fed to it here.
RandomCrop(s, p) ==
    LET s4 == IF Len(s) = 2 THEN <<1, 1>> \o s
              ELSE IF Len(s) = 3 THEN <<1>> \o s ELSE s
    IN  IF Len(s) \notin {2, 3, 4} THEN Err("ValueError")
        ELSE Ok(<<s4[1], s4[2], p, p>>)

Conv2dNoPadding(s, cin, cout, k, pad) ==
    LET r == Len(s) IN
    IF r \notin {3, 4} THEN Err("RuntimeError")
    ELSE IF s[r - 2] # cin THEN Err("RuntimeError")
    ELSE IF s[r - 1] - k + 1 < 1 \/ s[r] - k + 1 < 1
         THEN Err("RuntimeError")
    ELSE Ok(SubSeq(s, 1, r - 3) \o <<cout, s[r - 1] - k + 1, s[r] - k + 1>>)

\* nn.Conv2d(cin, cout, k, padding=pad), stride 1
Conv2d(s, cin, cout, k, pad) ==
    LET r == Len(s) IN
    IF r \notin {3, 4} THEN Err("RuntimeError")
    ELSE IF s[r - 2] # cin THEN Err("RuntimeError")
    ELSE IF s[r - 1] + 2 * pad - k + 1 < 1 \/ s[r] + 2 * pad - k + 1 < 1
         THEN Err("RuntimeError")
    ELSE Ok(SubSeq(s, 1, r - 3)
            \o <<cout, s[r - 1] + 2 * pad - k + 1, s[r] + 2 * pad - k + 1>>)

\* out += input : the in-place addition needs input to have out's shape
\* (broadcasting of size-1 dimensions of input aside)
AddInPlace(out, input) ==
    IF Len(out) = Len(input)
       /\ \A i \in 1..Len(out) : input[i] = out[i] \/ input[i] = 1
    THEN Ok(out) ELSE Err("RuntimeError")

\* ResBlock(in_channel, channel).forward
ResBlockForward(s, in_channel, channel) ==
    The({IF c1.status # "ok" THEN c1
         ELSE The({IF c2.status # "ok" THEN c2 ELSE AddInPlace(c2.shape, s) :
                   c2 \in {Conv2d(c1.shape, channel, in_channel, 1, 0)}}) :
         c1 \in {Conv2d(s, in_channel, channel, 3, 1)}})

\* nn.AvgPool2d(k): stride k, no padding, floor mode
AvgPool2d(s, k) ==
    LET r == Len(s) IN
    IF r \notin {3, 4} THEN Err("RuntimeError")
    ELSE IF k < 1 THEN Err("RuntimeError")
    ELSE IF s[r - 1] < k \/ s[r] < k THEN Err("RuntimeError")
    ELSE Ok(SubSeq(s, 1, r - 2)
            \o <<(s[r - 1] - k) \div k + 1, (s[r] - k) \div k + 1>>)

\* nn.Flatten(): start_dim 1
Flatten(s) ==
    IF Len(s) < 2 THEN Err("IndexError")
    ELSE Ok(<<s[1], Prod(Tail(s))>>)

\* nn.Linear(cin, cout)
Linear(s, cin, cout) ==
    IF Len(s) < 1 THEN Err("RuntimeError")
    ELSE IF s[Len(s)] # cin THEN Err("RuntimeError")
    ELSE Ok(SubSeq(s, 1, Len(s) - 1) \o <<cout>>)

(* ------------------- the sequential pipeline (lines 47-64) ------------- *)
Layer(o, cin, cout, k, pad) == [op |-> o, cin |-> cin, cout |-> cout, k |-> k, pad |-> pad]

\* the list handed to nn.Sequential by PatchDiscriminator.__init__
Blocks(patch_size, in_channel, channel, n_res_block, n_res_channel, n_pool_channel) ==
    <<Layer("RandomCrop", 0, 0, patch_size, 0),
      Layer("Conv2d", in_channel, channel, 3, 1)>>
    \o [i \in 1..n_res_block |-> Layer("ResBlock", channel, n_res_channel, 0, 0)]
    \o <<Layer("ReLU", 0, 0, 0, 0),
         Layer("Conv2d", channel, n_pool_channel, 1, 0),
         Layer("AvgPool2d", 0, 0, patch_size \div 4, 0),
         Layer("Flatten", 0, 0, 0, 0),
         Layer("Linear", n_pool_channel * 4 * 4, n_pool_channel, 0, 0),
         Layer("ReLU", 0, 0, 0, 0),
         Layer("Linear", channel, 1, 0, 0)>>

\* one module of the pipeline applied to a shape
Apply(L, s) ==
    CASE L.op = "RandomCrop" -> RandomCrop(s, L.k)
      [] L.op = "Conv2d"     -> Conv2d(s, L.cin, L.cout, L.k, L.pad)
      [] L.op = "ResBlock"   -> ResBlockForward(s, L.cin, L.cout)
      [] L.op = "ReLU"       -> Ok(s)
      [] L.op = "AvgPool2d"  -> AvgPool2d(s, L.k)
      [] L.op = "Flatten"    -> Flatten(s)
      [] L.op = "Linear"     -> Linear(s, L.cin, L.cout)

\* nn.Sequential.forward: each module gets the previous module's output;
\* outs collects the output shape of every module that completed
RECURSIVE Sequential(_, _, _)
Sequential(blocks, s, outs) ==
    IF blocks = <<>> THEN [status |-> "ok", shape |-> s, outs |-> outs]
    ELSE The({IF r.status # "ok"
              THEN [status |-> r.status, shape |-> <<>>, outs |-> outs]
              ELSE Sequential(Tail(blocks), r.shape, Append(outs, r.shape)) :
              r \in {Apply(Head(blocks), s)}})

(* ------------------------------ objects -------------------------------- *)
NoObject == [cls |-> "None", blocks |-> <<>>, patch_size |-> 0, in_channel |-> 0,
             channel |-> 0, n_pool_channel |-> 0]

\* ResBlock.__init__
ResBlock(in_channel, channel) ==
    [cls |-> "ResBlock", blocks |-> <<Layer("ResBlock", in_channel, channel, 0, 0)>>,
     patch_size |-> 0, in_channel |-> in_channel, channel |-> channel,
     n_pool_channel |-> 0]

\* PatchDiscriminator.__init__ ; patch_size, in_channel, channel and
\* n_pool_channel record the constructor's arguments
PatchDiscriminator(patch_size, in_channel, channel, n_res_block, n_res_channel, n_pool_channel) ==
    [cls |-> "PatchDiscriminator",
     blocks |-> Blocks(patch_size, in_channel, channel, n_res_block,
                       n_res_channel, n_pool_channel),
     patch_size |-> patch_size, in_channel |-> in_channel, channel |-> channel,
     n_pool_channel |-> n_pool_channel]

\* PatchReconstructionDiscriminator.__init__ : the base pipeline is built
\* for in_channel * 2 and the default n_pool_channel; self.in_channel and
\* self.patch_size keep the arguments
PatchReconstructionDiscriminator(patch_size, in_channel, channel, n_res_block, n_res_channel) ==
    [cls |-> "PatchReconstructionDiscriminator",
     blocks |-> Blocks(patch_size, in_channel * 2, channel, n_res_block,
                       n_res_channel, 64),
     patch_size |-> patch_size, in_channel |-> in_channel, channel |-> channel,
     n_pool_channel |-> 64]

(* ------------------------- outcomes of a call -------------------------- *)
NoResult == [status |-> "none", shape |-> <<>>, logits |-> <<>>, loss |-> NoLoss]

Raised(e) == [status |-> e, shape |-> <<>>, logits |-> <<>>, loss |-> NoLoss]

ReturnedTensor(s, l) == [status |-> "ok", shape |-> s, logits |-> l, loss |-> NoLoss]

ReturnedLoss(l) == [status |-> "ok", shape |-> <<>>, logits |-> <<>>, loss |-> l]

Outcome(t, p, r) == [trace |-> t, passes |-> p, result |-> r]

\* the steps t were taken, then those of outcome o
After(t, o) == The({Outcome(t \o x.trace, x.passes, x.result) : x \in {o}})

\* logits around the two margins of the hinge loss
PassLogitValues == {-1, 0, 1}

\* the logits a pass over a batch of this shape can produce: one arbitrary
\* value per image when the pipeline completes
PassLogits(self, s) ==
    The({IF r.status = "ok"
         THEN Vectors(r.shape[1], PassLogitValues)
         ELSE {<<>>} :
         r \in {Sequential(self.blocks, s, <<>>)}})

\* PatchDiscriminator.forward (line 70-71): one run of self.blocks
BasePass(self, input, logits) ==
    The({[input |-> input, status |-> r.status, shape |-> r.shape, outs |-> r.outs,
          logits |-> IF r.status = "ok" THEN logits ELSE <<>>] :
         r \in {Sequential(self.blocks, input.shape, <<>>)}})

PassResult(p) ==
    IF p.status = "ok" THEN ReturnedTensor(p.shape, p.logits) ELSE Raised(p.status)

PatchDiscriminator_forward(self, input, logits) ==
    The({Outcome(<<"forward">>, <<p>>, PassResult(p)) :
         p \in {BasePass(self, input, logits)}})

\* PatchDiscriminator.d_loss (lines 73-77)
PatchDiscriminator_d_loss(self, reals, fakes, l1, l2) ==
    The({IF p1.status # "ok"
         THEN Outcome(<<"forward">>, <<p1>>, Raised(p1.status))
         ELSE IF p2.status # "ok"
         THEN Outcome(<<"forward", "forward">>, <<p1, p2>>, Raised(p2.status))
         ELSE Outcome(<<"forward", "forward", "hinge_d_loss">>, <<p1, p2>>,
                      ReturnedLoss(hinge_d_loss(p1.logits, p2.logits))) :
         p1 \in {BasePass(self, reals, l1)}, p2 \in {BasePass(self, fakes, l2)}})

\* PatchDiscriminator.g_loss (lines 79-80)
PatchDiscriminator_g_loss(self, fakes, l1) ==
    The({IF p1.status # "ok"
         THEN Outcome(<<"forward">>, <<p1>>, Raised(p1.status))
         ELSE Outcome(<<"forward", "hinge_g_loss">>, <<p1>>,
                      ReturnedLoss(hinge_g_loss(p1.logits))) :
         p1 \in {BasePass(self, fakes, l1)}})

(* ------------- PatchReconstructionDiscriminator (lines 83-121) --------- *)
Tensor(s, i) == [shape |-> s, id |-> i]

\* torch.stack([x, y], dim=1) of two tensors of one shape: a new axis of
\* size 2 after the first
Stack(x, y) ==
    Tensor(<<x.shape[1], 2>> \o Tail(x.shape), <<"stack">> \o x.id \o <<"with">> \o y.id)

\* t.reshape(2, -1, in_channel, patch_size, patch_size) unpacked into its
\* two halves; the reshape needs the element count to be a multiple of
\* 2 * in_channel * patch_size * patch_size (a tensor of no elements is:
\* the free dimension is then 0 and the halves are empty); a product of the
\* given dimensions of 0 leaves the free dimension undetermined
Reshape(t, in_channel, patch_size) ==
    LET unit == 2 * in_channel * patch_size * patch_size
        n == Prod(t.shape)
        half == <<n \div unit, in_channel, patch_size, patch_size>>
    IN  IF unit = 0 \/ n % unit # 0
        THEN [status |-> "RuntimeError", first |-> Tensor(<<>>, <<>>),
              second |-> Tensor(<<>>, <<>>)]
        ELSE [status |-> "ok", first |-> Tensor(half, t.id \o <<"half1">>),
              second |-> Tensor(half, t.id \o <<"half2">>)]

\* PatchReconstructionDiscriminator.forward (lines 102-105)
PatchReconstructionDiscriminator_forward(self, x, y, logits) ==
    IF x.shape # y.shape
    THEN Outcome(<<"assert">>, <<>>, Raised("AssertionError"))
    ELSE The({Outcome(<<"assert", "stack", "forward">>, <<p>>, PassResult(p)) :
              p \in {BasePass(self, Stack(x, y), logits)}})

\* lines 109-113 and 117-121, after the assertion: the two reshapes, the two
\* forward calls and the hinge loss; swap says which logit set goes first
\* into hinge_d_loss
ReshapeAndScore(self, reals, fakes, l1, l2, swap) ==
    The({
      IF r.status # "ok"
      THEN Outcome(<<"reshape">>, <<>>, Raised(r.status))
      ELSE IF f.status # "ok"
      THEN Outcome(<<"reshape", "reshape">>, <<>>, Raised(f.status))
      ELSE The({
        IF o1.result.status # "ok"
        THEN Outcome(<<"reshape", "reshape">> \o o1.trace, o1.passes,
                     o1.result)
        ELSE The({
          IF o2.result.status # "ok"
          THEN Outcome(<<"reshape", "reshape">> \o o1.trace \o o2.trace,
                       o1.passes \o o2.passes, o2.result)
          ELSE Outcome(<<"reshape", "reshape">> \o o1.trace \o o2.trace
                          \o <<"hinge_d_loss">>,
                       o1.passes \o o2.passes,
                       ReturnedLoss(
                          IF swap
                          THEN hinge_d_loss(o2.result.logits, o1.result.logits)
                          ELSE hinge_d_loss(o1.result.logits, o2.result.logits))) :
          o2 \in {PatchReconstructionDiscriminator_forward(self, f.first, r.first, l2)}}) :
        o1 \in {PatchReconstructionDiscriminator_forward(self, r.first, f.first, l1)}}) :
      r \in {Reshape(reals, self.in_channel, self.patch_size)},
      f \in {Reshape(fakes, self.in_channel, self.patch_size)}})

PatchReconstructionDiscriminator_d_loss_unchecked(self, reals, fakes, l1, l2) ==
    ReshapeAndScore(self, reals, fakes, l1, l2, FALSE)

\* PatchReconstructionDiscriminator.d_loss (lines 107-113)
PatchReconstructionDiscriminator_d_loss(self, reals, fakes, l1, l2) ==
    IF reals.shape # fakes.shape
    THEN Outcome(<<"assert">>, <<>>, Raised("AssertionError"))
    ELSE After(<<"assert">>, ReshapeAndScore(self, reals, fakes, l1, l2, FALSE))

\* PatchReconstructionDiscriminator.g_loss (lines 115-121)
PatchReconstructionDiscriminator_g_loss(self, reals, fakes, l1, l2) ==
    IF reals.shape # fakes.shape
    THEN Outcome(<<"assert">>, <<>>, Raised("AssertionError"))
    ELSE After(<<"assert">>, ReshapeAndScore(self, reals, fakes, l1, l2, TRUE))

\* the logits the passes of a paired call can produce
PairLogits(self, x, y) ==
    IF x.shape # y.shape THEN {<<>>} ELSE PassLogits(self, Stack(x, y).shape)

HalfPairLogits(self, reals, fakes) ==
    The({IF reals.shape # fakes.shape \/ r.status # "ok" THEN {<<>>}
         ELSE PassLogits(self, Stack(r.first, r.first).shape) :
         r \in {Reshape(reals, self.in_channel, self.patch_size)}})

(* ------------------------------ inputs --------------------------------- *)
PatchSizes == 4..MaxPatch
InChannels == {1, 3}
Channels == {32, 64}
PoolChannels == {32, 64}
ResChannels == {16}
Ids == {"a", "b"}

\* batches of 3-channel images for a discriminator of patch size p: images
\* of exactly the patch size and larger, non-square ones
Images(p) ==
    {Tensor(<<n, 3, hw[1], hw[2]>>, <<i>>) :
        n \in 1..MaxBatch, hw \in {<<p, p>>, <<16, 12>>}, i \in Ids}

\* the batches of the end-to-end scenario and some of other sizes
ScenarioImages ==
    {Tensor(<<n, 3, hw, hw>>, <<i>>) : n \in {1, 2, 4}, hw \in {16, 32}, i \in Ids}

Shapes4 == {<<n, c, h, w>> : n \in 1..MaxDim, c \in 1..MaxDim, h \in 1..MaxDim, w \in 1..MaxDim}

Objects ==
    {PatchDiscriminator(p, ic, ch, nrb, nrc, npc) :
        p \in PatchSizes, ic \in InChannels, ch \in Channels,
        nrb \in 0..MaxResBlock, nrc \in ResChannels, npc \in PoolChannels}
    \cup
    {PatchReconstructionDiscriminator(p, ic, ch, nrb, nrc) :
        p \in PatchSizes, ic \in InChannels, ch \in Channels,
        nrb \in 0..MaxResBlock, nrc \in ResChannels}

(* ------------------------------ actions -------------------------------- *)
Finish(o, a, outcome) ==
    \E out \in {outcome} :
        /\ op' = o
        /\ args' = a
        /\ trace' = out.trace
        /\ passes' = out.passes
        /\ result' = out.result
        /\ phase' = "returned"
        /\ UNCHANGED obj

Call_hinge_d_loss ==
    /\ phase = "ready"
    /\ \E logits_real, logits_fake \in VectorsUpTo(MaxLen, (0 - MaxLogit)..MaxLogit) :
          Finish("hinge_d_loss", <<logits_real, logits_fake>>,
                 Outcome(<<"hinge_d_loss">>, <<>>,
                         ReturnedLoss(hinge_d_loss(logits_real, logits_fake))))

Call_hinge_g_loss ==
    /\ phase = "ready"
    /\ \E logits_fake \in VectorsUpTo(MaxLen, (0 - MaxLogit)..MaxLogit) :
          Finish("hinge_g_loss", <<logits_fake>>,
                 Outcome(<<"hinge_g_loss">>, <<>>,
                         ReturnedLoss(hinge_g_loss(logits_fake))))

Call_ResBlock_forward ==
    /\ phase = "ready"
    /\ obj.cls = "ResBlock"
    /\ \E s \in Shapes4 :
          \E r \in {Sequential(obj.blocks, s, <<>>)} :
          Finish("forward", <<Tensor(s, <<"x">>)>>,
                 Outcome(<<"forward">>, <<>>,
                         IF r.status = "ok" THEN ReturnedTensor(r.shape, <<>>)
                         ELSE Raised(r.status)))

Call_forward(T) ==
    /\ phase = "ready"
    /\ obj.cls = "PatchDiscriminator"
    /\ \E input \in T : \E l \in PassLogits(obj, input.shape) :
          Finish("forward", <<input>>, PatchDiscriminator_forward(obj, input, l))

Call_d_loss(T) ==
    /\ phase = "ready"
    /\ obj.cls = "PatchDiscriminator"
    /\ \E reals, fakes \in T :
       \E l1 \in PassLogits(obj, reals.shape), l2 \in PassLogits(obj, fakes.shape) :
          Finish("d_loss", <<reals, fakes>>,
                 PatchDiscriminator_d_loss(obj, reals, fakes, l1, l2))

Call_g_loss(T) ==
    /\ phase = "ready"
    /\ obj.cls = "PatchDiscriminator"
    /\ \E fakes \in T : \E l \in PassLogits(obj, fakes.shape) :
          Finish("g_loss", <<fakes>>, PatchDiscriminator_g_loss(obj, fakes, l))

Call_pair_forward(T) ==
    /\ phase = "ready"
    /\ obj.cls = "PatchReconstructionDiscriminator"
    /\ \E x, y \in T : \E l \in PairLogits(obj, x, y) :
          Finish("forward", <<x, y>>,
                 PatchReconstructionDiscriminator_forward(obj, x, y, l))

Call_pair_d_loss(T) ==
    /\ phase = "ready"
    /\ obj.cls = "PatchReconstructionDiscriminator"
    /\ \E reals, fakes \in T :
       \E l1, l2 \in HalfPairLogits(obj, reals, fakes) :
          Finish("d_loss", <<reals, fakes>>,
                 PatchReconstructionDiscriminator_d_loss(obj, reals, fakes, l1, l2))

Call_pair_g_loss(T) ==
    /\ phase = "ready"
    /\ obj.cls = "PatchReconstructionDiscriminator"
    /\ \E reals, fakes \in T :
       \E l1, l2 \in HalfPairLogits(obj, reals, fakes) :
          Finish("g_loss", <<reals, fakes>>,
                 PatchReconstructionDiscriminator_g_loss(obj, reals, fakes, l1, l2))

\* the call has returned or raised; the caller is ready for its next call
Return ==
    /\ phase = "returned"
    /\ phase' = "ready"
    /\ op' = "none"
    /\ args' = <<>>
    /\ trace' = <<>>
    /\ passes' = <<>>
    /\ result' = NoResult
    /\ UNCHANGED obj

(* --------------------------- specifications ---------------------------- *)
Idle ==
    /\ phase = "ready"
    /\ op = "none"
    /\ args = <<>>
    /\ trace = <<>>
    /\ passes = <<>>
    /\ result = NoResult

Init == obj \in Objects /\ Idle

Next ==
    \/ Call_forward(Images(obj.patch_size))
    \/ Call_d_loss(Images(obj.patch_size))
    \/ Call_g_loss(Images(obj.patch_size))
    \/ Call_pair_forward(Images(obj.patch_size))
    \/ Call_pair_d_loss(Images(obj.patch_size))
    \/ Call_pair_g_loss(Images(obj.patch_size))
    \/ Return

Spec == Init /\ [][Next]_vars

InitScenario == obj = PatchDiscriminator(16, 3, 32, 2, 16, 64) /\ Idle

NextScenario ==
    \/ Call_forward(ScenarioImages)
    \/ Call_d_loss(ScenarioImages)
    \/ Call_g_loss(ScenarioImages)
    \/ Return

SpecScenario == InitScenario /\ [][NextScenario]_vars

InitLoss == obj = NoObject /\ Idle

NextLoss == Call_hinge_d_loss \/ Call_hinge_g_loss \/ Return

SpecLoss == InitLoss /\ [][NextLoss]_vars

InitRes == obj \in {ResBlock(c, c2) : c \in 1..MaxDim, c2 \in 1..MaxDim} /\ Idle

NextRes == Call_ResBlock_forward \/ Return

SpecRes == InitRes /\ [][NextRes]_vars

(* ------------------------------ claims --------------------------------- *)
Returned(cls, o) == phase = "returned" /\ obj.cls = cls /\ op = o

\* a batch [N, c, H, W] with H, W >= p
IsBatch(t, c, p) ==
    Len(t.shape) = 4 /\ t.shape[2] = c /\ t.shape[3] >= p /\ t.shape[4] >= p

\* a batch [N, c, p, p] with N even
IsEvenPatchBatch(t, c, p) ==
    Len(t.shape) = 4 /\ t.shape[1] % 2 = 0 /\ t.shape[2] = c
    /\ t.shape[3] = p /\ t.shape[4] = p

\* C1: PatchDiscriminator.forward on a batch [N, in_channel, H, W] with
\* H, W >= patch_size completes and returns one scalar per image (shape [N]
\* or [N, 1]), whatever the constructor arguments, also when channel differs
\* from n_pool_channel.
C1_ForwardReturnsOneScalarPerImage ==
    (Returned("PatchDiscriminator", "forward")
       /\ IsBatch(args[1], obj.in_channel, obj.patch_size))
    => /\ result.status = "ok"
       /\ result.shape \in {<<args[1].shape[1]>>, <<args[1].shape[1], 1>>}
       /\ Len(passes[1].outs) = Len(obj.blocks)

\* C2: in the end-to-end scenario (patch_size 16, in_channel 3, channel 32,
\* 2 residual blocks of width 16, default n_pool_channel; batches of 4
\* images [3, 32, 32]) d_loss and g_loss complete and return one scalar, and
\* d_loss(reals, reals) is strictly positive.
C2_ScenarioLossesAreScalars ==
    (phase = "returned" /\ op \in {"d_loss", "g_loss"}
       /\ \A i \in 1..Len(args) : args[i].shape = <<4, 3, 32, 32>>)
    => /\ result.status = "ok"
       /\ result.loss.den > 0
       /\ ~result.loss.nan
       /\ (op = "d_loss" /\ args[1] = args[2] => IsPositive(result.loss))

\* C3: PatchReconstructionDiscriminator.forward(x, y) on equally shaped
\* batches [N, in_channel, H, W] hands the base pipeline a combined tensor of
\* the rank and channel count (2 * in_channel) its first convolution accepts,
\* completes, and yields one logit per pair.
C3_PairForwardCompletes ==
    (Returned("PatchReconstructionDiscriminator", "forward")
       /\ args[1].shape = args[2].shape
       /\ IsBatch(args[1], obj.in_channel, obj.patch_size))
    => /\ Len(passes) = 1
       /\ Len(passes[1].input.shape) = 4
       /\ passes[1].input.shape[2] = 2 * obj.in_channel
       /\ result.status = "ok"
       /\ Len(result.logits) = args[1].shape[1]

\* C4: in PatchReconstructionDiscriminator, forward, d_loss and g_loss on two
\* arguments of different shapes fail with an assertion failure before any
\* reshape, stacking or network pass, and return no loss.
C4_ShapeMismatchAsserts ==
    (phase = "returned" /\ obj.cls = "PatchReconstructionDiscriminator"
       /\ op \in {"forward", "d_loss", "g_loss"}
       /\ args[1].shape # args[2].shape)
    => /\ result.status = "AssertionError"
       /\ trace = <<"assert">>
       /\ passes = <<>>
       /\ result.loss = NoLoss
       /\ result.logits = <<>>

C4_Witness ==
    /\ Returned("PatchReconstructionDiscriminator", "d_loss")
    /\ args[1].shape # args[2].shape
    /\ args[1].shape[1] = args[2].shape[1]
    /\ result.status = "AssertionError"

AllAtLeast(v, b) == \A i \in 1..Len(v) : v[i] >= b
AllAtMost(v, b) == \A i \in 1..Len(v) : v[i] <= b

\* C5: for non-empty logit vectors, hinge_d_loss is exactly 0 when every
\* real logit is >= 1 and every fake logit is <= -1, and strictly positive
\* otherwise.
C5_HingeZeroExactlyBeyondMargins ==
    (phase = "returned" /\ op = "hinge_d_loss"
       /\ Len(args[1]) > 0 /\ Len(args[2]) > 0)
    => IF AllAtLeast(args[1], 1) /\ AllAtMost(args[2], -1)
       THEN IsZero(result.loss)
       ELSE IsPositive(result.loss)

C5_Witness ==
    /\ phase = "returned" /\ op = "hinge_d_loss"
    /\ Len(args[1]) = 2 /\ Len(args[2]) = 2
    /\ AllAtLeast(args[1], 1) /\ AllAtMost(args[2], -1)
    /\ args[1][1] = 1 /\ args[2][2] = -1
    /\ IsZero(result.loss)

\* C6: PatchDiscriminator.d_loss(reals, fakes) on batches [N, in_channel, H, W]
\* with H, W >= patch_size makes exactly two passes, the first over reals
\* and the second over fakes, and returns
\* 0.5 * (mean(relu(1 - logits_real)) + mean(relu(1 + logits_fake)))
\* of the logits of these two passes; the two batch sizes may differ.
C6_DLossIsHingeOfTwoPasses ==
    (Returned("PatchDiscriminator", "d_loss")
       /\ IsBatch(args[1], obj.in_channel, obj.patch_size)
       /\ IsBatch(args[2], obj.in_channel, obj.patch_size))
    => /\ result.status = "ok"
       /\ trace = <<"forward", "forward", "hinge_d_loss">>
       /\ Len(passes) = 2
       /\ passes[1].input = args[1]
       /\ passes[2].input = args[2]
       /\ Len(passes[1].logits) = args[1].shape[1]
       /\ Len(passes[2].logits) = args[2].shape[1]
       /\ LET lr == passes[1].logits
              lf == passes[2].logits
              sr == SumSeq([i \in 1..Len(lr) |-> IF lr[i] < 1 THEN 1 - lr[i] ELSE 0])
              sf == SumSeq([i \in 1..Len(lf) |-> IF lf[i] > -1 THEN 1 + lf[i] ELSE 0])
          IN  /\ ~result.loss.nan
              /\ result.loss.den > 0
              /\ result.loss.num * (2 * Len(lr) * Len(lf))
                   = result.loss.den * (sr * Len(lf) + sf * Len(lr))

\* C7: ResBlock(C, C2).forward returns a tensor of exactly the input's shape
\* for every input [N, C, H, W] with N, H, W >= 1 and every C2 >= 1; the
\* addition of the input never fails.
C7_ResBlockKeepsShape ==
    (Returned("ResBlock", "forward")
       /\ Len(args[1].shape) = 4 /\ args[1].shape[2] = obj.in_channel)
    => /\ result.status = "ok"
       /\ result.shape = args[1].shape

C7_Witness ==
    /\ Returned("ResBlock", "forward")
    /\ args[1].shape[2] = obj.in_channel
    /\ obj.channel # obj.in_channel
    /\ args[1].shape[3] = 1 /\ args[1].shape[4] = 2
    /\ result.status = "ok"
    /\ result.shape = args[1].shape

\* C8: for equally shaped reals and fakes [N, in_channel, patch_size,
\* patch_size] with N even, PatchReconstructionDiscriminator.d_loss returns
\* hinge_d_loss(forward(reals_half1, fakes_half1), forward(fakes_half1,
\* reals_half1)) and never consumes the second halves.
C8_PairDLossUsesFirstHalves ==
    (Returned("PatchReconstructionDiscriminator", "d_loss")
       /\ args[1].shape = args[2].shape
       /\ IsEvenPatchBatch(args[1], obj.in_channel, obj.patch_size))
    => /\ result.status = "ok"
       /\ Len(passes) = 2
       /\ passes[1].input.id
            = <<"stack">> \o args[1].id \o <<"half1", "with">> \o args[2].id \o <<"half1">>
       /\ passes[2].input.id
            = <<"stack">> \o args[2].id \o <<"half1", "with">> \o args[1].id \o <<"half1">>
       /\ result.loss = hinge_d_loss(passes[1].logits, passes[2].logits)

\* C9: under the same conditions g_loss makes the same two forward calls as
\* d_loss and returns the hinge discriminator loss with the two logit sets
\* exchanged: 0.5 * (mean(relu(1 - B)) + mean(relu(1 + A))).
C9_PairGLossExchangesLogits ==
    (Returned("PatchReconstructionDiscriminator", "g_loss")
       /\ args[1].shape = args[2].shape
       /\ IsEvenPatchBatch(args[1], obj.in_channel, obj.patch_size))
    => /\ result.status = "ok"
       /\ Len(passes) = 2
       /\ passes[1].input.id
            = <<"stack">> \o args[1].id \o <<"half1", "with">> \o args[2].id \o <<"half1">>
       /\ passes[2].input.id
            = <<"stack">> \o args[2].id \o <<"half1", "with">> \o args[1].id \o <<"half1">>
       /\ result.loss = hinge_d_loss(passes[2].logits, passes[1].logits)

\* C10: for every patch_size >= 4 the average pooling of the head leaves a
\* 4 x 4 map, so the flattened length is n_pool_channel * 4 * 4.
C10_PoolLeavesFourByFour ==
    (phase = "returned" /\ obj.cls = "PatchDiscriminator" /\ obj.patch_size >= 4)
    => \A i \in 1..Len(passes) :
          LET pool == Len(obj.blocks) - 4
              o == passes[i].outs
          IN  /\ Len(o) >= pool => o[pool][3] = 4 /\ o[pool][4] = 4
              /\ Len(o) > pool => o[pool + 1][2] = obj.n_pool_channel * 4 * 4

====
